---- MODULE Spec2Model ----
(***************************************************************************)
(* A model of trace-rs: the bounding volume hierarchy (src/bvh.rs), the    *)
(* boxes and primitives it is built over (src/surface.rs), the recursive   *)
(* integrator Scene::ray_color and the parallel render driver with its     *)
(* progress monitor (src/main.rs).                                         *)
(*                                                                         *)
(* Numbers.  Coordinates are integers; a parametric distance t is an exact *)
(* rational <<num, den>> with den > 0.  The primitives and rays of the     *)
(* model are chosen so that every f32 operation of the code is exact on    *)
(* them: ray directions are unit axis vectors, sphere discriminants are    *)
(* perfect squares, and no 0/0 arises in the slab test.  A division by a   *)
(* zero direction component gives a signed infinity as in IEEE-754.        *)
(***************************************************************************)
EXTENDS Integers, Sequences, FiniteSets, TLC

VARIABLES
    surfaces,   \* BVH.surfaces: the primitive slice, permuted in place
    internal,   \* BVH.internal: Vec<Internal>
    leaf,       \* BVH.leaf: Vec<Leaf>
    stack,      \* the activations of BVH::new_recur, innermost last
    ret,        \* the ChildPointer returned by the activation that just ended
    status,     \* BVH::new: "building", "built" or "panicked"
    root,       \* BVH.root
    riQuery,    \* the last BVH::ray_intersect call: <<ray, result>>
    haQuery,    \* the last BVH::hits_any call: <<ray, result>>
    lights,     \* Scene.lights.len()
    rcStack,    \* the activations of Scene::ray_color, innermost last
    rcRet,      \* the ray_color activation that just returned: <<ray, depth, color>>
    pending,    \* render: the pixels no worker has taken yet
    worker,     \* render: the pixel each rayon worker is on, or Idle
    pixels_rendered,  \* the shared AtomicUsize
    added,      \* render: how many fetch_add(1) were made for each pixel
    monitorPc,  \* the progress thread: "load", "check", "sleep" or "done"
    rendered,   \* the progress thread's local `rendered`
    mainPc      \* main: "render", "output" or "exited"

bvhVars == <<surfaces, internal, leaf, stack, ret, status, root>>
queryVars == <<riQuery, haQuery>>
colorVars == <<lights, rcStack, rcRet>>
renderVars == <<pending, worker, pixels_rendered, added, monitorPc, rendered, mainPc>>
vars == <<bvhVars, queryVars, colorVars, renderVars>>

-----------------------------------------------------------------------------
(* Bounds of the model *)

MaxPrims == 5
MaxDepth == 2
MaxLights == 2
Width == 2
Height == 2

-----------------------------------------------------------------------------
(* glam::Vec3A on integer coordinates *)

Vec3(x, y, z) == <<x, y, z>>
ZERO == Vec3(0, 0, 0)
splat(v) == Vec3(v, v, v)
VAdd(a, b) == Vec3(a[1] + b[1], a[2] + b[2], a[3] + b[3])
VSub(a, b) == Vec3(a[1] - b[1], a[2] - b[2], a[3] - b[3])
dot(a, b) == a[1] * b[1] + a[2] * b[2] + a[3] * b[3]
cross(a, b) ==
    Vec3(a[2] * b[3] - a[3] * b[2], a[3] * b[1] - a[1] * b[3], a[1] * b[2] - a[2] * b[1])
IMin(x, y) == IF x < y THEN x ELSE y
IMax(x, y) == IF x > y THEN x ELSE y
VMin(a, b) == Vec3(IMin(a[1], b[1]), IMin(a[2], b[2]), IMin(a[3], b[3]))
VMax(a, b) == Vec3(IMax(a[1], b[1]), IMax(a[2], b[2]), IMax(a[3], b[3]))

(* f32 with the two infinities and NaN.  INFINITY stands for +inf: it is   *)
(* above every finite value the model computes; NAN compares false.        *)
INFINITY == 1000000
NEG_INFINITY == 0 - INFINITY
NAN == 2000000

FDiv(n, d) ==
    IF d = 0
    THEN IF n > 0 THEN INFINITY ELSE IF n < 0 THEN NEG_INFINITY ELSE NAN
    ELSE (n * d) \div (d * d)
FLt(a, b) == a # NAN /\ b # NAN /\ a < b
FMin(a, b) == IF FLt(a, b) THEN a ELSE b
FMax(a, b) == IF FLt(b, a) THEN a ELSE b
VDiv(a, b) == Vec3(FDiv(a[1], b[1]), FDiv(a[2], b[2]), FDiv(a[3], b[3]))
VFMin(a, b) == Vec3(FMin(a[1], b[1]), FMin(a[2], b[2]), FMin(a[3], b[3]))
VFMax(a, b) == Vec3(FMax(a[1], b[1]), FMax(a[2], b[2]), FMax(a[3], b[3]))
max_element(v) == FMax(FMax(v[1], v[2]), v[3])
min_element(v) == FMin(FMin(v[1], v[2]), v[3])

(* Exact rationals for parametric distances *)
Rat(n, d) == <<n, d>>
RLt(a, b) == a[1] * b[2] < b[1] * a[2]
RGt(a, b) == RLt(b, a)
REq(a, b) == a[1] * b[2] = b[1] * a[2]
ONE == Rat(1, 1)
(* f32::sqrt, exact on the perfect squares the model's inputs produce *)
sqrt(n) == CHOOSE s \in 0..n : s * s = n

-----------------------------------------------------------------------------
(* src/main.rs: Ray *)

Ray(origin, direction) == [origin |-> origin, direction |-> direction]

-----------------------------------------------------------------------------
(* src/surface.rs: AABB *)

AABB(min, max) == [min |-> min, max |-> max]

ray_hit(self, ray) ==
    LET ta == VDiv(VSub(self.min, ray.origin), ray.direction)
        tb == VDiv(VSub(self.max, ray.origin), ray.direction)
        min_t == VFMin(ta, tb)
        max_t == VFMax(ta, tb)
    IN  FLt(max_element(min_t), min_element(max_t))

(* (min + max) * 0.5; the model's boxes have min + max even on every axis *)
midpoint(self) ==
    LET s == VAdd(self.min, self.max) IN Vec3(s[1] \div 2, s[2] \div 2, s[3] \div 2)

zero == AABB(ZERO, ZERO)

union_mut(self, aabb) == AABB(VMin(self.min, aabb.min), VMax(self.max, aabb.max))

(* The loop of max_axis: max starts at -NEG_INFINITY *)
max_axis_step(diff, acc, i) ==
    IF diff[i + 1] > acc.max THEN [max |-> diff[i + 1], max_i |-> i] ELSE acc

max_axis(self) ==
    LET diff == VSub(self.max, self.min)
        a0 == [max |-> 0 - NEG_INFINITY, max_i |-> 0]
        a1 == max_axis_step(diff, a0, 0)
        a2 == max_axis_step(diff, a1, 1)
        a3 == max_axis_step(diff, a2, 2)
    IN  a3.max_i

-----------------------------------------------------------------------------
(* src/surface.rs: Sphere, Triangle, CanHit *)

Sphere(origin, radius) == [kind |-> "Sphere", origin |-> origin, radius |-> radius]
Triangle(v0, v1, v2) == [kind |-> "Triangle", v0 |-> v0, v1 |-> v1, v2 |-> v2]

(* Option<(f32, &dyn Geometry)>: None is the empty tuple, Some((t, geom))  *)
(* the pair; geom is the primitive itself (the primitives of a scene are   *)
(* distinct, so the value identifies the reference).                       *)
None == << >>
Some(t, geom) == <<t, geom>>
is_some(o) == o # None

SphereRayIntersect(self, ray) ==
    LET a == dot(ray.direction, ray.direction)
        oc == VSub(ray.origin, self.origin)
        half_b == dot(oc, ray.direction)
        c == dot(oc, oc) - self.radius * self.radius
        discriminant == half_b * half_b - a * c
    IN  IF discriminant < 0
        THEN None
        ELSE LET root_one == Rat((0 - half_b) - sqrt(discriminant), a)
                 root_two == Rat((0 - half_b) + sqrt(discriminant), a)
             IN  IF RGt(root_one, ONE) THEN Some(root_one, self)
                 ELSE IF RGt(root_two, ONE) THEN Some(root_two, self)
                 ELSE None

SphereAabb(self) ==
    AABB(VSub(self.origin, splat(self.radius)), VAdd(self.origin, splat(self.radius)))

(* EPSILON = 1e-6 = 1 / EPSILON_INV *)
EPSILON_INV == 1000000
LtEpsilon(n, d) == n * EPSILON_INV < d

TriangleRayIntersect(self, ray) ==
    LET v0v1 == VSub(self.v1, self.v0)
        v0v2 == VSub(self.v2, self.v0)
        plane_vec == cross(v0v1, v0v2)
        det == 0 - dot(ray.direction, plane_vec)
        b == VSub(ray.origin, self.v0)
        det_u == 0 - dot(ray.direction, cross(b, v0v2))
        det_v == 0 - dot(ray.direction, cross(v0v1, b))
        det_t == dot(b, plane_vec)
    IN  IF LtEpsilon(det, 1) THEN None
        ELSE IF det_u < 0 \/ det_u > det THEN None
        ELSE IF det_v < 0 \/ det_u + det_v > det THEN None
        ELSE IF LtEpsilon(det_t, det) THEN None
        ELSE Some(Rat(det_t, det), self)

TriangleAabb(self) ==
    AABB(VMin(self.v0, VMin(self.v1, self.v2)), VMax(self.v0, VMax(self.v1, self.v2)))

CanHitRayIntersect(self, ray) ==
    IF self.kind = "Sphere" THEN SphereRayIntersect(self, ray)
    ELSE TriangleRayIntersect(self, ray)

CanHitHitsAny(self, ray) == is_some(CanHitRayIntersect(self, ray))

aabb(self) == IF self.kind = "Sphere" THEN SphereAabb(self) ELSE TriangleAabb(self)

-----------------------------------------------------------------------------
(* The primitives and rays the scenes and queries are drawn from.  Sphere  *)
(* centres are odd with radius 1 and triangle vertices are even, so box    *)
(* faces lie on even coordinates; a ray's origin is odd on the axes its    *)
(* direction is zero on, so the slab test never divides 0 by 0.            *)

S1 == Sphere(Vec3(3, 1, 1), 1)
S2 == Sphere(Vec3(7, 1, 1), 1)
S3 == Sphere(Vec3(3, 7, 1), 1)
S4 == Sphere(Vec3(-3, 1, 1), 1)
T1 == Triangle(Vec3(4, 0, 0), Vec3(4, 4, 0), Vec3(4, 0, 4))
T2 == Triangle(Vec3(0, 4, 0), Vec3(0, 4, 8), Vec3(8, 4, 0))

Catalogue == {S1, S2, S3, S4, T1, T2}

Rays ==
    { Ray(Vec3(11, 1, 1), Vec3(-1, 0, 0)),
      Ray(Vec3(-7, 1, 1), Vec3(1, 0, 0)),
      Ray(Vec3(5, 1, 1), Vec3(-1, 0, 0)),
      Ray(Vec3(3, 11, 1), Vec3(0, -1, 0)),
      Ray(Vec3(1, 9, 1), Vec3(0, -1, 0)),
      Ray(Vec3(3, 1, 9), Vec3(0, 0, -1)),
      Ray(Vec3(11, 3, 3), Vec3(-1, 0, 0)) }

(* The slices BVH::new may be handed: distinct primitives, in any order *)
RECURSIVE Slices(_, _)
Slices(S, n) ==
    IF n = 0 THEN {<< >>}
    ELSE {<< >>} \cup UNION {{<<x>> \o t : t \in Slices(S \ {x}, n - 1)} : x \in S}

-----------------------------------------------------------------------------
(* src/bvh.rs: Internal, Leaf, ChildPointer *)

InternalNode(left, right, bounding) == [left |-> left, right |-> right, bounding |-> bounding]
LeafNode(begin, length, bounding) == [begin |-> begin, length |-> length, bounding |-> bounding]
PtrInternal(i) == [tag |-> "Internal", idx |-> i]
PtrLeaf(i) == [tag |-> "Leaf", idx |-> i]
NoPtr == [tag |-> "None", idx |-> 0]

(* An activation of new_recur over surfaces[surface_index .. surface_index + len) *)
Frame(surface_index, len) ==
    [surface_index |-> surface_index, len |-> len, pc |-> "start",
     bounding |-> zero, axis |-> 0, ll |-> 0, ln |-> NoPtr]

Top == stack[Len(stack)]
Pop == SubSeq(stack, 1, Len(stack) - 1)
SliceOf(f) == SubSeq(surfaces, f.surface_index + 1, f.surface_index + f.len)

(* new_recur: the fold of union_mut over the slice, from AABB::zero() *)
RECURSIVE BoundingFold(_, _, _)
BoundingFold(s, k, acc) ==
    IF k > Len(s) THEN acc ELSE BoundingFold(s, k + 1, union_mut(acc, aabb(s[k])))

(* a fold that stops one primitive short of the end of the slice *)
BoundingShort(s) == BoundingFold(SubSeq(s, 1, Len(s) - 1), 1, zero)

Bounding(s) == BoundingFold(s, 1, zero)

(* sort_unstable_by on midpoint()[axis]: every ordering of the slice that  *)
(* is nondecreasing in the key (the order of equal keys is unspecified).   *)
SortKey(s, i, axis) == midpoint(aabb(s[i]))[axis + 1]

RECURSIVE SortedOrders(_, _, _)
SortedOrders(s, I, axis) ==
    IF I = {} THEN {<< >>}
    ELSE LET least == {i \in I : \A j \in I : SortKey(s, i, axis) <= SortKey(s, j, axis)}
         IN  UNION {{<<s[i]>> \o t : t \in SortedOrders(s, I \ {i}, axis)} : i \in least}

sort_unstable_by(s, axis) == SortedOrders(s, 1..Len(s), axis)

(* split_at_mut(surfaces.len() / 2): the length of the left half, and the  *)
(* surface_index the right half is built with                              *)
SplitAt(len) == len \div 2
(* a right half built with the left half's surface_index *)
RightIndexSame(surface_index, ll) == surface_index
RightIndex(surface_index, ll) == surface_index + ll

Replace(seq, begin, s) ==
    [i \in 1..Len(seq) |-> IF i > begin /\ i <= begin + Len(s) THEN s[i - begin] ELSE seq[i]]

-----------------------------------------------------------------------------
(* BVH::new and BVH::new_recur, one action per step of the recursion *)

(* BVH::new has been called on a slice and has called new_recur on it *)
NewCalled(slices) ==
    /\ surfaces \in slices
    /\ internal = << >>
    /\ leaf = << >>
    /\ stack = <<Frame(0, Len(surfaces))>>
    /\ ret = NoPtr
    /\ status = "building"
    /\ root = 0
    /\ riQuery = << >>
    /\ haQuery = << >>

(* no ray_color call has been made *)
NoRayColor ==
    /\ rcStack = << >>
    /\ rcRet = << >>

(* main before the render: the counter is 0, no pixel is taken, the        *)
(* progress thread is about to load the counter                            *)
Idle == -1
Pixels == 0..(Width * Height - 1)
Workers == {"w1", "w2"}
RenderNotStarted ==
    /\ pending = Pixels
    /\ worker = [w \in Workers |-> Idle]
    /\ pixels_rendered = 0
    /\ added = [px \in Pixels |-> 0]
    /\ monitorPc = "load"
    /\ rendered = 0
    /\ mainPc = "render"

Init ==
    /\ NewCalled(Slices(Catalogue, MaxPrims))
    /\ lights = 0
    /\ NoRayColor
    /\ RenderNotStarted

(* surfaces.len() <= 2: push a Leaf and return ChildPointer::Leaf *)
NewRecurLeaf ==
    /\ stack # << >>
    /\ Top.pc = "start"
    /\ Top.len <= 2
    /\ leaf' = Append(leaf, LeafNode(Top.surface_index, Top.len, Bounding(SliceOf(Top))))
    /\ ret' = PtrLeaf(Len(leaf))
    /\ stack' = Pop
    /\ UNCHANGED <<surfaces, internal, status, root, riQuery, haQuery, colorVars, renderVars>>

(* otherwise: choose the axis, sort the slice, split it and recurse left *)
NewRecurSplit ==
    /\ stack # << >>
    /\ Top.pc = "start"
    /\ Top.len > 2
    /\ LET bounding == Bounding(SliceOf(Top))
           axis == max_axis(bounding)
           ll == SplitAt(Top.len)
       IN  \E sorted \in sort_unstable_by(SliceOf(Top), axis) :
              /\ surfaces' = Replace(surfaces, Top.surface_index, sorted)
              /\ stack' = Append(Pop \o <<[Top EXCEPT !.pc = "left", !.bounding = bounding,
                                                     !.axis = axis, !.ll = ll]>>,
                                 Frame(Top.surface_index, ll))
    /\ UNCHANGED <<internal, leaf, ret, status, root, riQuery, haQuery, colorVars, renderVars>>

(* the left call has returned ln: recurse into the right half *)
NewRecurRight ==
    /\ stack # << >>
    /\ Top.pc = "left"
    /\ ret # NoPtr
    /\ stack' = Append(Pop \o <<[Top EXCEPT !.pc = "right", !.ln = ret]>>,
                       Frame(RightIndex(Top.surface_index, Top.ll), Top.len - Top.ll))
    /\ ret' = NoPtr
    /\ UNCHANGED <<surfaces, internal, leaf, status, root, riQuery, haQuery, colorVars, renderVars>>

(* the right call has returned rn: push the Internal node and return it *)
NewRecurInternal ==
    /\ stack # << >>
    /\ Top.pc = "right"
    /\ ret # NoPtr
    /\ internal' = Append(internal, InternalNode(Top.ln, ret, Top.bounding))
    /\ ret' = PtrInternal(Len(internal))
    /\ stack' = Pop
    /\ UNCHANGED <<surfaces, leaf, status, root, riQuery, haQuery, colorVars, renderVars>>

(* a BVH::new that takes whatever pointer new_recur returned as its root *)
NewReturnAnyRoot ==
    /\ status = "building"
    /\ stack = << >>
    /\ ret # NoPtr
    /\ status' = "built"
    /\ root' = ret.idx
    /\ UNCHANGED <<surfaces, internal, leaf, stack, ret, riQuery, haQuery, colorVars, renderVars>>

(* BVH::new: the root pointer is Internal, the BVH is returned *)
NewReturn ==
    /\ status = "building"
    /\ stack = << >>
    /\ ret.tag = "Internal"
    /\ status' = "built"
    /\ root' = ret.idx
    /\ UNCHANGED <<surfaces, internal, leaf, stack, ret, riQuery, haQuery, colorVars, renderVars>>

(* BVH::new: the root pointer is a Leaf, panic!("bvh construction failed") *)
NewPanic ==
    /\ status = "building"
    /\ stack = << >>
    /\ ret.tag = "Leaf"
    /\ status' = "panicked"
    /\ UNCHANGED <<surfaces, internal, leaf, stack, ret, root, riQuery, haQuery, colorVars, renderVars>>

-----------------------------------------------------------------------------
(* BVH::ray_intersect and BVH::hits_any *)

InternalAt(i) == internal[i + 1]
LeafAt(l) == leaf[l + 1]

(* Option::or_else *)
or_else(l, r) == IF is_some(l) THEN l ELSE r

(* the loop of the Leaf branch over surfaces[begin .. begin + length) *)
RECURSIVE LeafBestHit(_, _, _, _)
LeafBestHit(ray, k, end, best_hit) ==
    IF k >= end THEN best_hit
    ELSE LET h == CanHitRayIntersect(surfaces[k + 1], ray)
             next == IF is_some(h)
                     THEN IF is_some(best_hit)
                          THEN IF RLt(h[1], best_hit[1]) THEN h ELSE best_hit
                          ELSE h
                     ELSE best_hit
         IN  LeafBestHit(ray, k + 1, end, next)

RECURSIVE ray_intersect_walk(_, _)
ray_intersect_walk(ray, p) ==
    IF p.tag = "Internal"
    THEN LET node == InternalAt(p.idx)
         IN  IF ~ray_hit(node.bounding, ray) THEN None
             ELSE or_else(ray_intersect_walk(ray, node.left),
                          ray_intersect_walk(ray, node.right))
    ELSE LET lf == LeafAt(p.idx)
         IN  IF ~ray_hit(lf.bounding, ray) THEN None
             ELSE LeafBestHit(ray, lf.begin, lf.begin + lf.length, None)

ray_intersect(ray) == ray_intersect_walk(ray, PtrInternal(root))

(* the nodes a call of ray_intersect_walk on p is made on: p itself, the   *)
(* left child when the box is hit, the right child when or_else calls it.  *)
RECURSIVE ray_intersect_calls(_, _)
ray_intersect_calls(ray, p) ==
    IF p.tag = "Internal"
    THEN LET node == InternalAt(p.idx)
         IN  IF ~ray_hit(node.bounding, ray) THEN {p}
             ELSE {p} \cup ray_intersect_calls(ray, node.left)
                      \cup (IF is_some(ray_intersect_walk(ray, node.left)) THEN {}
                            ELSE ray_intersect_calls(ray, node.right))
    ELSE {p}

RECURSIVE LeafHitsAny(_, _, _)
LeafHitsAny(ray, k, end) ==
    IF k >= end THEN FALSE
    ELSE IF CanHitHitsAny(surfaces[k + 1], ray) THEN TRUE
    ELSE LeafHitsAny(ray, k + 1, end)

(* && in place of || *)
both_children(l, r) == l /\ r

(* hits_any_walk(left) || hits_any_walk(right) *)
either_child(l, r) == l \/ r

RECURSIVE hits_any_walk(_, _)
hits_any_walk(ray, p) ==
    IF p.tag = "Internal"
    THEN LET node == InternalAt(p.idx)
         IN  IF ~ray_hit(node.bounding, ray) THEN FALSE
             ELSE either_child(hits_any_walk(ray, node.left), hits_any_walk(ray, node.right))
    ELSE LET lf == LeafAt(p.idx)
         IN  IF ~ray_hit(lf.bounding, ray) THEN FALSE
             ELSE LeafHitsAny(ray, lf.begin, lf.begin + lf.length)

hits_any(ray) == hits_any_walk(ray, PtrInternal(root))

RayIntersect ==
    /\ status = "built"
    /\ \E ray \in Rays : riQuery' = <<ray, ray_intersect(ray)>>
    /\ UNCHANGED <<surfaces, internal, leaf, stack, ret, status, root, haQuery, colorVars, renderVars>>

HitsAny ==
    /\ status = "built"
    /\ \E ray \in Rays : haQuery' = <<ray, hits_any(ray)>>
    /\ UNCHANGED <<surfaces, internal, leaf, stack, ret, status, root, riQuery, colorVars, renderVars>>

-----------------------------------------------------------------------------
(* src/main.rs: Scene::ray_color, one action per step of an activation.    *)
(*                                                                         *)
(* A colour is the set of the kinds of term that were added to it; the     *)
(* zero colour is the empty set.  The reflection and shadow rays, whose    *)
(* coordinates the code computes from normalised f32 vectors, and the sign *)
(* of l_v.dot(n) are drawn from SecondaryRays and BOOLEAN.                 *)

ZeroColor == {}
SecondaryRays == {Ray(Vec3(5, 1, 1), Vec3(-1, 0, 0)), Ray(Vec3(11, 3, 3), Vec3(-1, 0, 0))}

RcFrame(ray, depth) ==
    [ray |-> ray, depth |-> depth, pc |-> "enter", color |-> ZeroColor, li |-> 0]
RcTop == rcStack[Len(rcStack)]
RcPop == SubSeq(rcStack, 1, Len(rcStack) - 1)
RcSet(f) == RcPop \o <<f>>

best_hit(ray) == ray_intersect(ray)
SceneHitsAny(ray) == hits_any(ray)

(* `if depth <= 0` on a usize *)
DepthBelowZero(depth) == depth < 0
DepthExhausted(depth) == depth <= 0

(* a caller (the render loop) calls ray_color on a primary ray *)
RayColorCall ==
    /\ status = "built"
    /\ rcStack = << >>
    /\ \E ray \in Rays, depth \in 0..MaxDepth : rcStack' = <<RcFrame(ray, depth)>>
    /\ rcRet' = << >>
    /\ UNCHANGED <<bvhVars, queryVars, lights, renderVars>>

(* depth <= 0: return the zero colour *)
RayColorBase ==
    /\ rcStack # << >>
    /\ RcTop.pc = "enter"
    /\ DepthExhausted(RcTop.depth)
    /\ rcRet' = <<RcTop.ray, RcTop.depth, RcTop.color>>
    /\ rcStack' = RcPop
    /\ UNCHANGED <<bvhVars, queryVars, lights, renderVars>>

(* best_hit is None: return color, still zero *)
RayColorMiss ==
    /\ rcStack # << >>
    /\ RcTop.pc = "enter"
    /\ ~DepthExhausted(RcTop.depth)
    /\ ~is_some(best_hit(RcTop.ray))
    /\ rcRet' = <<RcTop.ray, RcTop.depth, RcTop.color>>
    /\ rcStack' = RcPop
    /\ UNCHANGED <<bvhVars, queryVars, lights, renderVars>>

(* best_hit is Some: add the ambient term and enter the loop over lights *)
RayColorHit ==
    /\ rcStack # << >>
    /\ RcTop.pc = "enter"
    /\ ~DepthExhausted(RcTop.depth)
    /\ is_some(best_hit(RcTop.ray))
    /\ rcStack' = RcSet([RcTop EXCEPT !.pc = "light", !.color = @ \cup {"ambient"}])
    /\ UNCHANGED <<bvhVars, queryVars, lights, rcRet, renderVars>>

(* for the next light: call ray_color on the reflected ray with depth - 1 *)
RayColorReflect ==
    /\ rcStack # << >>
    /\ RcTop.pc = "light"
    /\ RcTop.li < lights
    /\ \E reflected \in SecondaryRays :
          rcStack' = Append(RcSet([RcTop EXCEPT !.pc = "reflected"]),
                            RcFrame(reflected, RcTop.depth - 1))
    /\ rcRet' = << >>
    /\ UNCHANGED <<bvhVars, queryVars, lights, renderVars>>

(* the reflected call has returned: add k_reflective * its colour, then    *)
(* the diffuse and specular terms if the light is faced and not occluded   *)
RayColorShade ==
    /\ rcStack # << >>
    /\ RcTop.pc = "reflected"
    /\ rcRet # << >>
    /\ \E facing \in BOOLEAN, shadow \in SecondaryRays :
          LET reflection == {"reflection"} \cup rcRet[3]
              lit == facing /\ ~SceneHitsAny(shadow)
              local == IF lit THEN {"diffuse", "specular"} ELSE {}
          IN  rcStack' = RcSet([RcTop EXCEPT !.pc = "light", !.li = @ + 1,
                                             !.color = @ \cup reflection \cup local])
    /\ rcRet' = << >>
    /\ UNCHANGED <<bvhVars, queryVars, lights, renderVars>>

(* the loop over lights has ended: return color *)
RayColorReturn ==
    /\ rcStack # << >>
    /\ RcTop.pc = "light"
    /\ RcTop.li >= lights
    /\ rcRet' = <<RcTop.ray, RcTop.depth, RcTop.color>>
    /\ rcStack' = RcPop
    /\ UNCHANGED <<bvhVars, queryVars, lights, renderVars>>

-----------------------------------------------------------------------------
(* src/main.rs: main's render loop over the pixels (rayon par_iter_mut),   *)
(* the progress thread, and main's return.                                 *)

(* a rayon worker takes a pixel no worker has taken *)
WorkerTake(w) ==
    /\ mainPc = "render"
    /\ worker[w] = Idle
    /\ \E px \in pending :
          /\ worker' = [worker EXCEPT ![w] = px]
          /\ pending' = pending \ {px}
    /\ UNCHANGED <<bvhVars, queryVars, colorVars, pixels_rendered, added, monitorPc,
                   rendered, mainPc>>

(* the closure's last statement for a pixel: rayon_counter.fetch_add(1) *)
FetchAdd(counter) == counter + 1

WorkerFinish(w) ==
    /\ mainPc = "render"
    /\ worker[w] # Idle
    /\ pixels_rendered' = FetchAdd(pixels_rendered)
    /\ added' = [added EXCEPT ![worker[w]] = @ + 1]
    /\ worker' = [worker EXCEPT ![w] = Idle]
    /\ UNCHANGED <<bvhVars, queryVars, colorVars, pending, monitorPc, rendered, mainPc>>

(* for_each returns once every pixel has been processed *)
RenderJoin ==
    /\ mainPc = "render"
    /\ pending = {}
    /\ \A w \in Workers : worker[w] = Idle
    /\ mainPc' = "output"
    /\ UNCHANGED <<bvhVars, queryVars, colorVars, pending, worker, pixels_rendered, added,
                   monitorPc, rendered>>

(* main writes output.ppm and returns Ok(()): the process exits; the       *)
(* progress thread's handle is never joined                                *)
MainReturn ==
    /\ mainPc = "output"
    /\ mainPc' = "exited"
    /\ UNCHANGED <<bvhVars, queryVars, colorVars, pending, worker, pixels_rendered, added,
                   monitorPc, rendered>>

(* the progress thread: rendered = reporter_counter.load(SeqCst) *)
MonitorLoad ==
    /\ mainPc # "exited"
    /\ monitorPc = "load"
    /\ rendered' = pixels_rendered
    /\ monitorPc' = "check"
    /\ UNCHANGED <<bvhVars, queryVars, colorVars, pending, worker, pixels_rendered, added,
                   mainPc>>

(* if rendered == h * w { break } *)
AllRendered(n) == n = Height * Width

MonitorBreak ==
    /\ mainPc # "exited"
    /\ monitorPc = "check"
    /\ AllRendered(rendered)
    /\ monitorPc' = "done"
    /\ UNCHANGED <<bvhVars, queryVars, colorVars, pending, worker, pixels_rendered, added,
                   rendered, mainPc>>

(* otherwise thread::sleep(progress_report_interval) *)
MonitorSleep ==
    /\ mainPc # "exited"
    /\ monitorPc = "check"
    /\ ~AllRendered(rendered)
    /\ monitorPc' = "sleep"
    /\ UNCHANGED <<bvhVars, queryVars, colorVars, pending, worker, pixels_rendered, added,
                   rendered, mainPc>>

(* the sleep ends and the loop starts over *)
MonitorWake ==
    /\ mainPc # "exited"
    /\ monitorPc = "sleep"
    /\ monitorPc' = "load"
    /\ UNCHANGED <<bvhVars, queryVars, colorVars, pending, worker, pixels_rendered, added,
                   rendered, mainPc>>

-----------------------------------------------------------------------------
(* Specifications *)

NewSteps ==
    \/ NewRecurLeaf
    \/ NewRecurSplit
    \/ NewRecurRight
    \/ NewRecurInternal
    \/ NewReturn
    \/ NewPanic

(* BVH::new over every slice of the catalogue, then queries on the tree *)
Next ==
    \/ NewSteps
    \/ RayIntersect
    \/ HitsAny

Spec == Init /\ [][Next]_vars

(* Scene::ray_color on the scenes of a small catalogue, for every number   *)
(* of lights up to MaxLights                                               *)
SmallCatalogue == {S1, S2, S4, T1}

InitColor ==
    /\ NewCalled(Slices(SmallCatalogue, MaxPrims))
    /\ lights \in 0..MaxLights
    /\ NoRayColor
    /\ RenderNotStarted

NextColor ==
    \/ NewSteps
    \/ RayColorCall
    \/ RayColorBase
    \/ RayColorMiss
    \/ RayColorHit
    \/ RayColorReflect
    \/ RayColorShade
    \/ RayColorReturn

SpecColor == InitColor /\ [][NextColor]_vars

(* the render loop, the progress thread and main's return; the scene is    *)
(* only read by the render and is left out                                 *)
InitRender ==
    /\ surfaces = << >>
    /\ internal = << >>
    /\ leaf = << >>
    /\ stack = << >>
    /\ ret = NoPtr
    /\ status = "opaque"
    /\ root = 0
    /\ riQuery = << >>
    /\ haQuery = << >>
    /\ lights = 0
    /\ NoRayColor
    /\ RenderNotStarted

NextRender ==
    \/ \E w \in Workers : WorkerTake(w)
    \/ \E w \in Workers : WorkerFinish(w)
    \/ RenderJoin
    \/ MainReturn
    \/ MonitorLoad
    \/ MonitorBreak
    \/ MonitorSleep
    \/ MonitorWake

SpecRender == InitRender /\ [][NextRender]_vars

-----------------------------------------------------------------------------
(* Properties of the built tree and of the queries *)

Built == status = "built"
Count == Len(surfaces)
InternalIds == 0..(Len(internal) - 1)
LeafIds == 0..(Len(leaf) - 1)

(* the brute-force scan: the hit of least t over all primitives, the first *)
(* in array order among equal t                                            *)
HitAt(k, ray) == CanHitRayIntersect(surfaces[k], ray)
Hitting(ray) == {k \in 1..Count : is_some(HitAt(k, ray))}
LinearScan(ray) ==
    IF Hitting(ray) = {} THEN None
    ELSE HitAt(CHOOSE k \in Hitting(ray) :
                  \A j \in Hitting(ray) :
                      \/ RLt(HitAt(k, ray)[1], HitAt(j, ray)[1])
                      \/ (REq(HitAt(k, ray)[1], HitAt(j, ray)[1]) /\ k <= j), ray)

(* C1: for every built BVH and every ray, ray_intersect returns what the   *)
(* brute-force linear scan over all primitives returns: None when nothing  *)
(* is hit, otherwise the (t, primitive) of least t.                        *)
C1_RayIntersectIsLinearScan ==
    Built => \A ray \in Rays : ray_intersect(ray) = LinearScan(ray)

(* C2: for every built BVH and every ray, hits_any(ray) is true exactly    *)
(* when ray_intersect(ray) is Some.                                        *)
C2_HitsAnyIffSome ==
    Built => \A ray \in Rays : hits_any(ray) = is_some(ray_intersect(ray))

(* both queries were made with one ray, which hits a primitive behind      *)
(* another one *)
C2_Witness ==
    /\ Built
    /\ riQuery # << >> /\ haQuery # << >>
    /\ riQuery[1] = haQuery[1]
    /\ haQuery[2] = TRUE /\ is_some(riQuery[2])
    /\ Cardinality(Hitting(riQuery[1])) >= 2

LeavesOver(i) == {l \in LeafIds : LeafAt(l).begin <= i /\ i < LeafAt(l).begin + LeafAt(l).length}

(* C3: the leaf ranges [begin, begin + length) of a built tree are         *)
(* pairwise disjoint and cover [0, n) exactly.                             *)
C3_LeafRangesPartition ==
    Built => /\ \A i \in 0..(Count - 1) : Cardinality(LeavesOver(i)) = 1
             /\ \A l \in LeafIds : LeafAt(l).begin + LeafAt(l).length <= Count

(* a built tree of three leaves over five primitives *)
C3_Witness == Built /\ Count = 5 /\ Len(leaf) = 3

(* C4: building from an empty collection does not panic.                   *)
C4_EmptyDoesNotPanic == Count = 0 => status # "panicked"

BoxOf(p) == IF p.tag = "Internal" THEN InternalAt(p.idx).bounding ELSE LeafAt(p.idx).bounding

(* C5: every Internal node's box is the union of the boxes stored in its   *)
(* two children.                                                           *)
C5_InternalIsUnionOfChildren ==
    \A i \in InternalIds :
        InternalAt(i).bounding =
            union_mut(BoxOf(InternalAt(i).left), BoxOf(InternalAt(i).right))

(* a built tree with an Internal node under the root whose two children's  *)
(* boxes differ from the node's *)
C5_Witness ==
    /\ Built
    /\ \E i \in InternalIds :
          /\ InternalAt(i).right.tag = "Internal"
          /\ BoxOf(InternalAt(i).left) # InternalAt(i).bounding
          /\ BoxOf(InternalAt(i).right) # InternalAt(i).bounding

Extent(box, i) == box.max[i + 1] - box.min[i + 1]
GreatestExtentAxis(box) ==
    CHOOSE i \in 0..2 :
        \A j \in 0..2 : /\ Extent(box, i) >= Extent(box, j)
                        /\ (j < i => Extent(box, i) > Extent(box, j))

(* C6: max_axis returns the axis of greatest extent, the lowest index      *)
(* among equals; stated of the axis new_recur sorts by.                    *)
C6_MaxAxisIsGreatestExtent ==
    \A k \in 1..Len(stack) :
        stack[k].pc # "start" => stack[k].axis = GreatestExtentAxis(stack[k].bounding)

MinHit(l, r) ==
    IF ~is_some(l) THEN r
    ELSE IF ~is_some(r) THEN l
    ELSE IF RLt(r[1], l[1]) THEN r ELSE l

(* C9: at an Internal node whose box the ray hits, both children are       *)
(* walked and the result is the least-t hit of the two subtrees.           *)
C9_BothChildrenExplored ==
    Built =>
        \A ray \in Rays : \A i \in InternalIds :
            ray_hit(InternalAt(i).bounding, ray) =>
                /\ InternalAt(i).left \in ray_intersect_calls(ray, PtrInternal(i))
                /\ InternalAt(i).right \in ray_intersect_calls(ray, PtrInternal(i))
                /\ ray_intersect_walk(ray, PtrInternal(i)) =
                       MinHit(ray_intersect_walk(ray, InternalAt(i).left),
                              ray_intersect_walk(ray, InternalAt(i).right))

TightUnion(s) == BoundingFold(s, 2, aabb(s[1]))
RECURSIVE NodeBegin(_)
NodeBegin(p) ==
    IF p.tag = "Internal" THEN NodeBegin(InternalAt(p.idx).left) ELSE LeafAt(p.idx).begin
RECURSIVE NodeEnd(_)
NodeEnd(p) ==
    IF p.tag = "Internal" THEN NodeEnd(InternalAt(p.idx).right)
    ELSE LeafAt(p.idx).begin + LeafAt(p.idx).length
Nodes == {PtrInternal(i) : i \in InternalIds} \cup {PtrLeaf(l) : l \in LeafIds}

(* C10: every node of a built tree stores exactly the union of the boxes   *)
(* of the primitives in its range, where an Internal node's range runs     *)
(* from its left child's begin to its right child's end.                   *)
C10_BoxIsTightUnion ==
    Built =>
        \A p \in Nodes :
            BoxOf(p) = TightUnion(SubSeq(surfaces, NodeBegin(p) + 1, NodeEnd(p)))

(* C7: ray_color(ray, 0) returns the zero colour for every ray and scene,  *)
(* no ambient, reflection, diffuse or specular term having been added.     *)
C7_DepthZeroIsZero ==
    /\ (rcRet # << >> /\ rcRet[2] = 0) => rcRet[3] = ZeroColor
    /\ \A k \in 1..Len(rcStack) : rcStack[k].depth = 0 => rcStack[k].color = ZeroColor

(* a reflected call at depth 0, on a ray that hits a surface of a scene    *)
(* with lights, has returned *)
C7_Witness ==
    /\ rcRet # << >> /\ rcRet[2] = 0
    /\ Len(rcStack) >= 1
    /\ lights >= 1
    /\ is_some(best_hit(rcRet[1]))

Total == Width * Height

(* one fetch_add per completed pixel; the counter counts them *)
C8_CounterIsCompletedPixels ==
    /\ \A px \in Pixels :
          added[px] = IF px \in pending \/ (\E w \in Workers : worker[w] = px) THEN 0 ELSE 1
    /\ pixels_rendered = Cardinality({px \in Pixels : added[px] = 1})
    /\ pixels_rendered <= Total
    /\ mainPc # "render" => pixels_rendered = Total

(* the progress thread breaks on, and only on, rendered = width * height *)
C8_MonitorLeavesOnTotal ==
    /\ monitorPc = "done" => rendered = Total
    /\ monitorPc = "sleep" => rendered # Total

(* the program is never at rest with the progress thread still looping *)
C8_MonitorEventuallyLeaves == monitorPc = "done" \/ ENABLED NextRender

(* C8: the counter is incremented once per completed pixel, never exceeds  *)
(* width * height and equals it once the workers have finished; the        *)
(* progress thread leaves its loop exactly when it observes the counter    *)
(* equal to width * height, and it eventually does: the program cannot     *)
(* come to rest with the progress thread still in its loop.                *)
C8_ProgressCounterAndMonitor ==
    /\ C8_CounterIsCompletedPixels
    /\ C8_MonitorLeavesOnTotal
    /\ C8_MonitorEventuallyLeaves

(* the recursive ray_color calls an activation has made so far: one for    *)
(* each light already processed, and the one it is waiting for             *)
Spawned(f) == IF f.pc = "reflected" THEN f.li + 1 ELSE f.li
Shaded(f) == f.pc \in {"light", "reflected"}
AboutToReturn(f) == f.pc = "light" /\ f.li >= lights

(* at no point has a shaded activation made more than one recursive call *)
C11_NeverMoreThanOne ==
    \A k \in 1..Len(rcStack) : Shaded(rcStack[k]) => Spawned(rcStack[k]) <= 1

(* a shaded activation that is about to return has made one recursive call *)
C11_OneAtReturn ==
    \A k \in 1..Len(rcStack) : AboutToReturn(rcStack[k]) => Spawned(rcStack[k]) = 1

(* C11: every ray_color activation with depth > 0 that found a nearest hit *)
(* makes exactly one recursive ray_color call, never more, whatever the    *)
(* number of lights.                                                       *)
C11_OneRecursiveCallPerHit ==
    /\ C11_NeverMoreThanOne
    /\ C11_OneAtReturn

(* the outermost new_recur has returned its pointer to BVH::new *)
NewRecurReturned == stack = << >> /\ ret # NoPtr

(* C12: BVH::new returns a BVH exactly when the root new_recur produced is *)
(* an Internal node, which is exactly when the slice holds at least three  *)
(* primitives; over 0, 1 or 2 primitives the root is a Leaf and BVH::new   *)
(* panics instead of returning.                                            *)
C12_ReturnsIffThreeOrMore ==
    /\ NewRecurReturned => (ret.tag = "Internal" <=> Count >= 3)
    /\ (NewRecurReturned /\ status = "building") =>
           /\ ENABLED NewReturn <=> ret.tag = "Internal"
           /\ ENABLED NewPanic <=> ret.tag = "Leaf"
    /\ status = "built" => (ret.tag = "Internal" /\ Count >= 3)
    /\ status = "panicked" => (ret.tag = "Leaf" /\ Count <= 2)

(* BVH::new has panicked over two primitives, which its single Leaf holds *)
C12_Witness ==
    /\ status = "panicked"
    /\ Count = 2
    /\ Len(leaf) = 1 /\ LeafAt(0).length = 2

====
